---- MODULE Spec2Model ----
(***************************************************************************)
(* A model of reverse.go: the ReverseProxy handler that forwards ordinary  *)
(* requests through httputil.ReverseProxy and serves CONNECT by hijacking  *)
(* the client connection, dialing the requested authority and relaying     *)
(* bytes in both directions.  One behaviour of Spec is one call of         *)
(* ServeHTTP, together with the goroutine it may spawn, the two peers and  *)
(* the clock; one behaviour of BuildSpec is a run of NewReverseProxy calls.*)
(***************************************************************************)
EXTENDS Integers, Sequences, FiniteSets, TLC

\* ------------------------------------------------------------------ bounds
\* Bytes each peer may send during one session.
MaxBytes == 2
\* Latest instant (in minutes) at which the request may arrive.
MaxStart == 1
\* Calls of NewReverseProxy in one process.
MaxProxies == 3

\* --------------------------------------------------------------- constants
\* const defaultTimeout = time.Minute * 5, in minutes.
defaultTimeout == 5

\* Request methods a client may present, exact and near-miss spellings.
Methods == {"CONNECT", "connect", "Connect", "CONNECT ", "", "GET", "POST"}
\* Values of the exported field Timeout (a time.Duration, which is signed).
Timeouts == {-1, 0, 2}
\* The bytes each peer sends, in order; every byte is distinct, so that a
\* byte lost, repeated, moved or sent the wrong way shows on the wire.
ClientStream == << "c1", "c2", "c3", "c4", "c5", "c6" >>
UpstreamStream == << "u1", "u2", "u3", "u4", "u5", "u6" >>
\* The two connections of a tunnel: the hijacked one and the dialed one.
Conns == {"clientConn", "proxyConn"}
\* The calling task and the spawned goroutine.
Tasks == {"main", "go"}

\* The *tls.Config values passed to NewReverseProxy: nil and two configurations.
NoTLS == "nil"
TLSConfigs == {NoTLS, "A", "B"}
\* The *http.Transport objects of the process: NewReverseProxy allocates
\* none, the only one it ever holds is the one http.DefaultTransport points to.
Transports == {"DefaultTransport"}

\* []byte("HTTP/1.0 200 OK\r\n\r\n")
Handshake ==
  << "H", "T", "T", "P", "/", "1", ".", "0", " ", "2", "0", "0", " ",
     "O", "K", "\r", "\n", "\r", "\n" >>

VARIABLES
  method,        \* req.Method
  Timeout,       \* p.Timeout
  hijacker,      \* whether rw implements http.Hijacker
  pc,            \* position of the calling task
  gpc,           \* position of the spawned goroutine
  mode,          \* which of ProxyHTTPS / ProxyHTTP ServeHTTP called
  forwarded,     \* calls of httputil.ReverseProxy.ServeHTTP
  hijacks,       \* calls of hij.Hijack
  dials,         \* calls of net.Dial
  statusWrites,  \* calls of clientConn.Write with the handshake line
  spawned,       \* go statements executed
  logs,          \* calls of p.logf
  now,           \* the clock
  clockReads,    \* the values time.Now() returned, in order
  deadline,      \* the local variable deadline, <<>> before line 88
  connState,     \* per connection: "none", "open", "closed" (this end)
  connDeadlines, \* per connection: the values passed to SetDeadline, in order
  closeCalls,    \* per connection: calls of Close
  peerClosed,    \* per connection: the far end has closed
  sent,          \* per connection: bytes the far end has sent
  nread,         \* per connection: bytes the proxy has read from it
  wrote,         \* per connection: bytes the proxy has written to it
  buf,           \* per task: the chunk io.Copy holds between Read and Write
  failed,        \* the establishment step that failed, "" if none
  proxies,       \* the proxies NewReverseProxy has returned, in order
  transportTLS   \* per transport object: its field TLSClientConfig

sessionVars ==
  << method, Timeout, hijacker, pc, gpc, mode, forwarded, hijacks, dials,
     statusWrites, spawned, logs, now, clockReads, deadline, connState,
     connDeadlines, closeCalls, peerClosed, sent, nread, wrote, buf, failed >>

\* What the constructor writes.
buildVars == << proxies, transportTLS >>

vars == << sessionVars, buildVars >>

\* Variables of the request and the configuration, never assigned while a
\* request is served.
inputVars == << method, Timeout, hijacker, buildVars >>
\* Variables only the relay touches.
relayVars == << sent, nread, wrote, buf >>
\* Counters of the establishment steps.
stepVars == << forwarded, hijacks, dials, statusWrites, spawned >>
\* The clock and what was read from it.
timeVars == << now, clockReads, deadline >>
\* What a step of the relay leaves alone besides the connections' state.
fixedInRelay ==
  << inputVars, mode, stepVars, logs, timeVars, connDeadlines, peerClosed,
     failed >>

\* ----------------------------------------------------------------- helpers
\* A dispatcher that compares the method without regard to case.
IsConnectFold(m) == m \in {"CONNECT", "connect", "Connect"}

\* req.Method == "CONNECT"
IsConnect(m) == m = "CONNECT"

\* deadline := time.Now(); deadline.Add(defaultTimeout) or .Add(p.Timeout)
ComputeDeadline(t, timeout) ==
  IF timeout = 0 THEN t + defaultTimeout ELSE t + timeout

\* A deadline that is recorded but never enforced.
ElapsedNever(c) == FALSE

\* A connection's deadline has passed: I/O on it fails instead of blocking.
Elapsed(c) ==
  /\ Len(connDeadlines[c]) > 0
  /\ now >= connDeadlines[c][Len(connDeadlines[c])]

\* A Close that cannot complete on a connection already closed.
CloseConnOnce(c) ==
  /\ connState[c] = "open"
  /\ connState' = [connState EXCEPT ![c] = "closed"]
  /\ closeCalls' = [closeCalls EXCEPT ![c] = @ + 1]

\* A half-close in the place of Close: the call is made and the connection
\* stays open on this end.
CloseConnHalf(c) ==
  /\ closeCalls' = [closeCalls EXCEPT ![c] = @ + 1]
  /\ UNCHANGED connState

\* conn.Close(): the connection is closed on this end; the result is dropped.
CloseConn(c) ==
  /\ connState' = [connState EXCEPT ![c] = "closed"]
  /\ closeCalls' = [closeCalls EXCEPT ![c] = @ + 1]

\* p.logf(...) followed by return.
LogAndReturn(step) ==
  /\ logs' = logs + 1
  /\ failed' = step
  /\ pc' = "Returned"

\* --------------------------------------------------------------------- Init
Init ==
  /\ method \in Methods
  /\ Timeout \in Timeouts
  /\ hijacker \in BOOLEAN
  /\ pc = "ServeHTTP"
  /\ gpc = "none"
  /\ mode = "none"
  /\ forwarded = 0
  /\ hijacks = 0
  /\ dials = 0
  /\ statusWrites = 0
  /\ spawned = 0
  /\ logs = 0
  /\ now \in 0 .. MaxStart
  /\ clockReads = << >>
  /\ deadline = << >>
  /\ connState = [c \in Conns |-> "none"]
  /\ connDeadlines = [c \in Conns |-> << >>]
  /\ closeCalls = [c \in Conns |-> 0]
  /\ peerClosed = [c \in Conns |-> FALSE]
  /\ sent = [c \in Conns |-> << >>]
  /\ nread = [c \in Conns |-> 0]
  /\ wrote = [c \in Conns |-> << >>]
  /\ buf = [t \in Tasks |-> << >>]
  /\ failed = ""
  /\ proxies = << >>
  /\ transportTLS = [t \in Transports |-> NoTLS]

\* -------------------------------------------------------------- constructor
\* func NewReverseProxy(target, tlsClientConfig): NewSingleHostReverseProxy
\* leaves Transport nil, so p.Transport becomes http.DefaultTransport, the
\* one shared object; a non-nil tlsClientConfig is then stored in that
\* object's TLSClientConfig field.
NewReverseProxy(tlsClientConfig) ==
  /\ Len(proxies) < MaxProxies
  /\ proxies' = Append(proxies, [Transport |-> "DefaultTransport",
                                 tlsClientConfig |-> tlsClientConfig])
  /\ transportTLS' =
       IF tlsClientConfig # NoTLS
         THEN [transportTLS EXCEPT !["DefaultTransport"] = tlsClientConfig]
         ELSE transportTLS
  /\ UNCHANGED sessionVars

\* p.Transport.(*http.Transport).TLSClientConfig of the i-th proxy built.
TLSOf(i) == transportTLS[proxies[i].Transport]

\* ----------------------------------------------------------------- dispatch
\* func (p *ReverseProxy) ServeHTTP
ServeHTTP ==
  /\ pc = "ServeHTTP"
  /\ IF IsConnect(method)
       THEN /\ mode' = "tunnel"
            /\ pc' = "Hijacker"
       ELSE /\ mode' = "forward"
            /\ pc' = "ProxyHTTP"
  /\ UNCHANGED << inputVars, gpc, stepVars, logs, timeVars, connState,
                  connDeadlines, closeCalls, peerClosed, relayVars, failed >>

\* func (p *ReverseProxy) ProxyHTTP: the request goes to the embedded
\* httputil.ReverseProxy, which answers it.
ProxyHTTP ==
  /\ pc = "ProxyHTTP"
  /\ forwarded' = forwarded + 1
  /\ pc' = "Returned"
  /\ UNCHANGED << inputVars, gpc, mode, hijacks, dials, statusWrites, spawned,
                  logs, timeVars, connState, connDeadlines, closeCalls,
                  peerClosed, relayVars, failed >>

\* ------------------------------------------------------------ establishment
\* The Hijacker assertion with its failure logged but not ending the session.
AssertHijackerNoReturn ==
  /\ pc = "Hijacker"
  /\ IF hijacker
       THEN UNCHANGED << logs, failed >>
       ELSE /\ logs' = logs + 1
            /\ failed' = "hijacker"
  /\ pc' = "Hijack"
  /\ UNCHANGED << inputVars, gpc, mode, stepVars, timeVars, connState,
                  connDeadlines, closeCalls, peerClosed, relayVars >>

\* hij, ok := rw.(http.Hijacker); if !ok { logf; return }
AssertHijacker ==
  /\ pc = "Hijacker"
  /\ IF hijacker
       THEN /\ pc' = "Hijack"
            /\ UNCHANGED << logs, failed >>
       ELSE LogAndReturn("hijacker")
  /\ UNCHANGED << inputVars, gpc, mode, stepVars, timeVars, connState,
                  connDeadlines, closeCalls, peerClosed, relayVars >>

\* clientConn, _, err := hij.Hijack(); if err != nil { logf; return }
Hijack ==
  /\ pc = "Hijack"
  /\ hijacks' = hijacks + 1
  /\ \/ /\ connState' = [connState EXCEPT !["clientConn"] = "open"]
        /\ pc' = "Dial"
        /\ UNCHANGED << logs, failed >>
     \/ /\ LogAndReturn("hijack")
        /\ UNCHANGED connState
  /\ UNCHANGED << inputVars, gpc, mode, forwarded, dials, statusWrites,
                  spawned, timeVars, connDeadlines, closeCalls, peerClosed,
                  relayVars >>

\* A Dial that is attempted again after it failed.
DialRetry ==
  /\ pc = "Dial"
  /\ dials' = dials + 1
  /\ \/ /\ connState' = [connState EXCEPT !["proxyConn"] = "open"]
        /\ pc' = "Now"
        /\ UNCHANGED logs
     \/ /\ logs' = logs + 1
        /\ UNCHANGED << pc, connState >>
  /\ UNCHANGED << inputVars, gpc, mode, forwarded, hijacks, statusWrites,
                  spawned, timeVars, connDeadlines, closeCalls, peerClosed,
                  relayVars, failed >>

\* proxyConn, err := net.Dial("tcp", req.URL.Host); if err != nil { logf; return }
Dial ==
  /\ pc = "Dial"
  /\ dials' = dials + 1
  /\ \/ /\ connState' = [connState EXCEPT !["proxyConn"] = "open"]
        /\ pc' = "Now"
        /\ UNCHANGED << logs, failed >>
     \/ /\ LogAndReturn("dial")
        /\ UNCHANGED connState
  /\ UNCHANGED << inputVars, gpc, mode, forwarded, hijacks, statusWrites,
                  spawned, timeVars, connDeadlines, closeCalls, peerClosed,
                  relayVars >>

\* deadline := time.Now(); deadline = deadline.Add(...)
ReadClock ==
  /\ pc = "Now"
  /\ clockReads' = Append(clockReads, now)
  /\ deadline' = << ComputeDeadline(now, Timeout) >>
  /\ pc' = "SetClientDeadline"
  /\ UNCHANGED << inputVars, gpc, mode, stepVars, logs, now, connState,
                  connDeadlines, closeCalls, peerClosed, relayVars, failed >>

\* The value the code passes to clientConn.SetDeadline.
ClientDeadlineArg == deadline[1]

\* A second reading of the clock for the second connection.
ProxyDeadlineReread == ComputeDeadline(now, Timeout)

\* The value the code passes to proxyConn.SetDeadline.
ProxyDeadlineArg == deadline[1]

\* SetDeadline on the client connection with its error logged but not
\* ending the session.
SetClientDeadlineNoReturn ==
  /\ pc = "SetClientDeadline"
  /\ \/ /\ connDeadlines' =
             [connDeadlines EXCEPT !["clientConn"] = Append(@, ClientDeadlineArg)]
        /\ UNCHANGED << logs, failed >>
     \/ /\ logs' = logs + 1
        /\ failed' = "clientDeadline"
        /\ UNCHANGED connDeadlines
  /\ pc' = "SetProxyDeadline"
  /\ UNCHANGED << inputVars, gpc, mode, stepVars, timeVars, connState,
                  closeCalls, peerClosed, relayVars >>

\* err = clientConn.SetDeadline(deadline); if err != nil { logf; return }
SetClientDeadline ==
  /\ pc = "SetClientDeadline"
  /\ \/ /\ connDeadlines' =
             [connDeadlines EXCEPT !["clientConn"] = Append(@, ClientDeadlineArg)]
        /\ pc' = "SetProxyDeadline"
        /\ UNCHANGED << logs, failed >>
     \/ /\ LogAndReturn("clientDeadline")
        /\ UNCHANGED connDeadlines
  /\ UNCHANGED << inputVars, gpc, mode, stepVars, timeVars, connState,
                  closeCalls, peerClosed, relayVars >>

\* err = proxyConn.SetDeadline(deadline); if err != nil { logf; return }
SetProxyDeadline ==
  /\ pc = "SetProxyDeadline"
  /\ \/ /\ connDeadlines' =
             [connDeadlines EXCEPT !["proxyConn"] = Append(@, ProxyDeadlineArg)]
        /\ pc' = "WriteStatus"
        /\ UNCHANGED << logs, failed >>
     \/ /\ LogAndReturn("proxyDeadline")
        /\ UNCHANGED connDeadlines
  /\ UNCHANGED << inputVars, gpc, mode, stepVars, timeVars, connState,
                  closeCalls, peerClosed, relayVars >>

\* ---------------------------------------------------------------- conn I/O
\* The outcomes conn.Write(data) can have in the current state: how many
\* bytes went out and whether err is nil.  A write on a connection closed on
\* this end or past its deadline fails with nothing written; a write to a
\* peer that has gone may fail part-way.  A successful write needs the far
\* end to take the bytes: until it does, the call blocks.
WriteResults(c, data) ==
  IF connState[c] # "open" \/ Elapsed(c)
    THEN { [n |-> 0, ok |-> FALSE] }
    ELSE { [n |-> Len(data), ok |-> TRUE] } \cup
         (IF peerClosed[c]
            THEN { [n |-> k, ok |-> FALSE] : k \in 0 .. (Len(data) - 1) }
            ELSE { })

\* conn.Read returns data: the connection is usable and bytes are waiting.
CanReadData(c) ==
  /\ connState[c] = "open"
  /\ ~Elapsed(c)
  /\ nread[c] < Len(sent[c])

\* conn.Read returns an error: closed on this end, deadline passed, or
\* end of stream (the peer closed and every byte it sent was read).
ReadEnds(c) ==
  \/ connState[c] # "open"
  \/ Elapsed(c)
  \/ (nread[c] = Len(sent[c]) /\ peerClosed[c])

\* Both tasks reading the client connection.
SrcOfMain(t) == "clientConn"

\* io.Copy(dst, src): the connection each task reads and the one it writes.
\* main runs io.Copy(proxyConn, clientConn), the goroutine
\* io.Copy(clientConn, proxyConn).
Src(t) == IF t = "main" THEN "clientConn" ELSE "proxyConn"

Dst(t) == IF t = "main" THEN "proxyConn" ELSE "clientConn"

\* A read that hands out the start of the stream again.
ReadChunkStale(c, k) == SubSeq(sent[c], 1, k)

\* The bytes src.Read hands to io.Copy when it reads k of them.
ReadChunk(c, k) == SubSeq(sent[c], nread[c] + 1, nread[c] + k)

\* One src.Read of io.Copy that returns k > 0 bytes.
CopyReadData(t) ==
  /\ CanReadData(Src(t))
  /\ \E k \in 1 .. (Len(sent[Src(t)]) - nread[Src(t)]) :
       /\ buf' = [buf EXCEPT ![t] = ReadChunk(Src(t), k)]
       /\ nread' = [nread EXCEPT ![Src(t)] = @ + k]
  /\ UNCHANGED << sent, wrote >>

\* One dst.Write of io.Copy with result r.
CopyWriteData(t, r) ==
  /\ wrote' = [wrote EXCEPT ![Dst(t)] = @ \o SubSeq(buf[t], 1, r.n)]
  /\ buf' = [buf EXCEPT ![t] = << >>]
  /\ UNCHANGED << sent, nread >>

\* _, err = clientConn.Write([]byte("HTTP/1.0 200 OK\r\n\r\n")) with result r;
\* if err != nil { logf; return }
WriteStatusResult(r) ==
  /\ pc = "WriteStatus"
  /\ statusWrites' = statusWrites + 1
  /\ wrote' = [wrote EXCEPT !["clientConn"] = @ \o SubSeq(Handshake, 1, r.n)]
  /\ IF r.ok
       THEN /\ pc' = "Spawn"
            /\ UNCHANGED << logs, failed >>
       ELSE LogAndReturn("write")
  /\ UNCHANGED << inputVars, gpc, mode, forwarded, hijacks, dials, spawned,
                  timeVars, connState, connDeadlines, closeCalls, peerClosed,
                  sent, nread, buf >>

\* The handshake write returns nil.
WriteStatusOk ==
  \E r \in WriteResults("clientConn", Handshake) : r.ok /\ WriteStatusResult(r)

\* The handshake write returns an error.
WriteStatusErr ==
  \E r \in WriteResults("clientConn", Handshake) : ~r.ok /\ WriteStatusResult(r)

\* -------------------------------------------------------------------- relay
\* go func() { ... }()
Spawn ==
  /\ pc = "Spawn"
  /\ spawned' = spawned + 1
  /\ gpc' = "CopyRead"
  /\ pc' = "CopyRead"
  /\ UNCHANGED << inputVars, mode, forwarded, hijacks, dials, statusWrites,
                  logs, timeVars, connState, connDeadlines, closeCalls,
                  peerClosed, relayVars, failed >>

\* A Read half that pushes the client connection's deadline forward on every
\* chunk, as an idle timeout would.
MainCopyReadRenew ==
  /\ pc = "CopyRead"
  /\ \/ /\ CopyReadData("main")
        /\ pc' = "CopyWrite"
        /\ connDeadlines' =
             [connDeadlines EXCEPT
                !["clientConn"] = Append(@, ComputeDeadline(now, Timeout))]
     \/ /\ ReadEnds(Src("main"))
        /\ pc' = "CloseProxy"
        /\ UNCHANGED << relayVars, connDeadlines >>
  /\ UNCHANGED << inputVars, mode, stepVars, logs, timeVars, peerClosed,
                  failed, gpc, connState, closeCalls >>

\* io.Copy(proxyConn, clientConn), the Read half: data, or the copy ends.
MainCopyRead ==
  /\ pc = "CopyRead"
  /\ \/ /\ CopyReadData("main")
        /\ pc' = "CopyWrite"
     \/ /\ ReadEnds(Src("main"))
        /\ pc' = "CloseProxy"
        /\ UNCHANGED relayVars
  /\ UNCHANGED << fixedInRelay, gpc, connState, closeCalls >>

\* io.Copy(proxyConn, clientConn), the Write half, returning nil.
MainCopyWriteOk ==
  /\ pc = "CopyWrite"
  /\ \E r \in WriteResults(Dst("main"), buf["main"]) :
       r.ok /\ CopyWriteData("main", r)
  /\ pc' = "CopyRead"
  /\ UNCHANGED << fixedInRelay, gpc, connState, closeCalls >>

\* io.Copy(proxyConn, clientConn), the Write half, failing: the copy ends.
MainCopyWriteErr ==
  /\ pc = "CopyWrite"
  /\ \E r \in WriteResults(Dst("main"), buf["main"]) :
       ~r.ok /\ CopyWriteData("main", r)
  /\ pc' = "CloseProxy"
  /\ UNCHANGED << fixedInRelay, gpc, connState, closeCalls >>

\* The calling task going on to clientConn.Close() without closing proxyConn.
MainCloseProxySkip ==
  /\ pc = "CloseProxy"
  /\ pc' = "CloseClient"
  /\ UNCHANGED << fixedInRelay, gpc, relayVars, connState, closeCalls >>

\* proxyConn.Close() after io.Copy, on the calling task.
MainCloseProxy ==
  /\ pc = "CloseProxy"
  /\ CloseConn("proxyConn")
  /\ pc' = "CloseClient"
  /\ UNCHANGED << fixedInRelay, gpc, relayVars >>

\* clientConn.Close() on the calling task; ProxyHTTPS then returns.
MainCloseClient ==
  /\ pc = "CloseClient"
  /\ CloseConn("clientConn")
  /\ pc' = "Returned"
  /\ UNCHANGED << fixedInRelay, gpc, relayVars >>

\* io.Copy(clientConn, proxyConn) in the goroutine, the Read half.
GoCopyRead ==
  /\ gpc = "CopyRead"
  /\ \/ /\ CopyReadData("go")
        /\ gpc' = "CopyWrite"
     \/ /\ ReadEnds(Src("go"))
        /\ gpc' = "CloseClient"
        /\ UNCHANGED relayVars
  /\ UNCHANGED << fixedInRelay, pc, connState, closeCalls >>

\* io.Copy(clientConn, proxyConn) in the goroutine, the Write half,
\* returning nil.
GoCopyWriteOk ==
  /\ gpc = "CopyWrite"
  /\ \E r \in WriteResults(Dst("go"), buf["go"]) :
       r.ok /\ CopyWriteData("go", r)
  /\ gpc' = "CopyRead"
  /\ UNCHANGED << fixedInRelay, pc, connState, closeCalls >>

\* io.Copy(clientConn, proxyConn) in the goroutine, the Write half, failing.
GoCopyWriteErr ==
  /\ gpc = "CopyWrite"
  /\ \E r \in WriteResults(Dst("go"), buf["go"]) :
       ~r.ok /\ CopyWriteData("go", r)
  /\ gpc' = "CloseClient"
  /\ UNCHANGED << fixedInRelay, pc, connState, closeCalls >>

\* clientConn.Close() in the goroutine.
GoCloseClient ==
  /\ gpc = "CloseClient"
  /\ CloseConn("clientConn")
  /\ gpc' = "CloseProxy"
  /\ UNCHANGED << fixedInRelay, pc, relayVars >>

\* proxyConn.Close() in the goroutine, which then ends.
GoCloseProxy ==
  /\ gpc = "CloseProxy"
  /\ CloseConn("proxyConn")
  /\ gpc' = "Done"
  /\ UNCHANGED << fixedInRelay, pc, relayVars >>

\* -------------------------------------------------------------- environment
\* ServeHTTP has not returned, or the goroutine it spawned still runs.
SessionLive == ~(pc = "Returned" /\ gpc \in {"none", "Done"})

\* The client sends one more byte on the hijacked connection; nothing makes
\* it wait for the 200 line.
ClientSend ==
  /\ SessionLive
  /\ connState["clientConn"] = "open"
  /\ ~peerClosed["clientConn"]
  /\ Len(sent["clientConn"]) < MaxBytes
  /\ Len(sent["clientConn"]) < Len(ClientStream)
  /\ sent' = [sent EXCEPT !["clientConn"] = Append(@, ClientStream[Len(@) + 1])]
  /\ UNCHANGED << inputVars, pc, gpc, mode, stepVars, logs, timeVars,
                  connState, connDeadlines, closeCalls, peerClosed, nread,
                  wrote, buf, failed >>

\* The dialed server sends one more byte.
UpstreamSend ==
  /\ SessionLive
  /\ connState["proxyConn"] = "open"
  /\ ~peerClosed["proxyConn"]
  /\ Len(sent["proxyConn"]) < MaxBytes
  /\ Len(sent["proxyConn"]) < Len(UpstreamStream)
  /\ sent' = [sent EXCEPT !["proxyConn"] = Append(@, UpstreamStream[Len(@) + 1])]
  /\ UNCHANGED << inputVars, pc, gpc, mode, stepVars, logs, timeVars,
                  connState, connDeadlines, closeCalls, peerClosed, nread,
                  wrote, buf, failed >>

\* The far end of a connection the proxy holds closes it.
PeerClose(c) ==
  /\ SessionLive
  /\ connState[c] = "open"
  /\ ~peerClosed[c]
  /\ peerClosed' = [peerClosed EXCEPT ![c] = TRUE]
  /\ UNCHANGED << inputVars, pc, gpc, mode, stepVars, logs, timeVars,
                  connState, connDeadlines, closeCalls, relayVars, failed >>

ClientPeerClose == PeerClose("clientConn")

UpstreamPeerClose == PeerClose("proxyConn")

\* Time passes.  The program looks at the clock once, and after that the
\* clock shows only in whether the deadline has passed.
Tick ==
  /\ SessionLive
  /\ deadline # << >>
  /\ now < deadline[1]
  /\ now' = now + 1
  /\ UNCHANGED << inputVars, pc, gpc, mode, stepVars, logs, clockReads,
                  deadline, connState, connDeadlines, closeCalls, peerClosed,
                  relayVars, failed >>

\* ------------------------------------------------------------ specification
\* The steps of the calling task that need nothing from a peer: every step
\* but a write completing.
MainRuns ==
  \/ ServeHTTP
  \/ ProxyHTTP
  \/ AssertHijacker
  \/ Hijack
  \/ Dial
  \/ ReadClock
  \/ SetClientDeadline
  \/ SetProxyDeadline
  \/ WriteStatusErr
  \/ Spawn
  \/ MainCopyRead
  \/ MainCopyWriteErr
  \/ MainCloseProxy
  \/ MainCloseClient

\* The same for the goroutine.
GoRuns ==
  \/ GoCopyRead
  \/ GoCopyWriteErr
  \/ GoCloseClient
  \/ GoCloseProxy

\* A write completes: the far end took the bytes.
WriteCompletes ==
  \/ WriteStatusOk
  \/ MainCopyWriteOk
  \/ GoCopyWriteOk

EnvStep ==
  \/ ClientSend
  \/ UpstreamSend
  \/ ClientPeerClose
  \/ UpstreamPeerClose
  \/ Tick

Next == MainRuns \/ GoRuns \/ WriteCompletes \/ EnvStep

Spec == Init /\ [][Next]_vars

\* A process that only constructs proxies.
BuildNext == \E tlsClientConfig \in TLSConfigs : NewReverseProxy(tlsClientConfig)

BuildSpec == Init /\ [][BuildNext]_vars

\* The scheduler runs every runnable goroutine: neither the calling task nor
\* the spawned one waits forever at a step it can take.  A write completes
\* only if the far end reads, which nothing promises.  Time does not stop.
LiveSpec == Spec /\ WF_vars(MainRuns) /\ WF_vars(GoRuns) /\ WF_vars(Tick)

\* ================================================================== claims
\* ServeHTTP has returned and no goroutine of the session runs.
SessionOver == pc = "Returned" /\ gpc \in {"none", "Done"}

\* s is a prefix of t.
IsPrefix(s, t) == Len(s) <= Len(t) /\ SubSeq(t, 1, Len(s)) = s

\* The handshake line as the specification gives it.
StatusLine ==
  << "H", "T", "T", "P", "/", "1", ".", "0", " ", "2", "0", "0", " ",
     "O", "K", "\r", "\n", "\r", "\n" >>

\* The bytes written to the client connection after the handshake line.
RelayedToClient ==
  IF Len(wrote["clientConn"]) > Len(StatusLine)
    THEN SubSeq(wrote["clientConn"], Len(StatusLine) + 1, Len(wrote["clientConn"]))
    ELSE << >>

\* C1: the mode follows from the method alone.  A request whose method is
\* exactly "CONNECT" takes the tunnel path and never the forwarder; any other
\* method takes the forwarder, and then no connection is hijacked or dialed.
C1_DispatchByMethod ==
  /\ pc # "ServeHTTP" =>
       mode = (IF method = "CONNECT" THEN "tunnel" ELSE "forward")
  /\ method = "CONNECT" => forwarded = 0 /\ pc # "ProxyHTTP"
  /\ method # "CONNECT" =>
       /\ hijacks = 0
       /\ dials = 0
       /\ \A c \in Conns : connState[c] = "none"
       /\ pc \in {"ServeHTTP", "ProxyHTTP", "Returned"}
  /\ (pc = "Returned" /\ method # "CONNECT") => forwarded = 1

\* A near-miss spelling of CONNECT was served by the forwarder.
C1_Witness == pc = "Returned" /\ method = "connect" /\ forwarded = 1

\* C2: when the dial fails after a successful hijack, the client connection
\* is closed by the time ProxyHTTPS returns and nothing of the session stays
\* open.
C2_DialFailureClosesClient ==
  (pc = "Returned" /\ failed = "dial") =>
    /\ connState["clientConn"] = "closed"
    /\ connState["proxyConn"] # "open"
    /\ gpc \in {"none", "Done"}

\* C3: when either SetDeadline fails, both connections are closed by the time
\* ProxyHTTPS returns, no handshake is written and no relay starts.
C3_DeadlineFailureClosesBoth ==
  (pc = "Returned" /\ failed \in {"clientDeadline", "proxyDeadline"}) =>
    /\ \A c \in Conns : connState[c] = "closed"
    /\ statusWrites = 0
    /\ spawned = 0

\* C4: when the handshake write fails, both connections are closed by the
\* time ProxyHTTPS returns and no relay task is started.
C4_WriteFailureClosesBoth ==
  (pc = "Returned" /\ failed = "write") =>
    /\ \A c \in Conns : connState[c] = "closed"
    /\ spawned = 0

\* C5: the handshake line is written at most once, only after the dial and
\* both deadline settings succeeded, and ahead of every relayed byte in
\* either direction; a session that fails earlier writes nothing to the
\* client.
C5_HandshakeFirst ==
  /\ statusWrites <= 1
  /\ statusWrites = 1 =>
       /\ connState["proxyConn"] # "none"
       /\ \A c \in Conns : Len(connDeadlines[c]) = 1
       /\ failed \in {"", "write"}
  /\ \/ IsPrefix(wrote["clientConn"], StatusLine)
     \/ IsPrefix(StatusLine, wrote["clientConn"])
  /\ (RelayedToClient # << >> \/ wrote["proxyConn"] # << >>) =>
       /\ IsPrefix(StatusLine, wrote["clientConn"])
       /\ statusWrites = 1
  /\ failed \in {"hijacker", "hijack", "dial", "clientDeadline", "proxyDeadline"} =>
       /\ wrote["clientConn"] = << >>
       /\ statusWrites = 0

\* Bytes were relayed both ways behind a complete handshake line.
C5_Witness ==
  /\ IsPrefix(StatusLine, wrote["clientConn"])
  /\ RelayedToClient # << >>
  /\ wrote["proxyConn"] # << >>

\* C6: the deadline is computed from one reading of the clock, that reading
\* plus 5 minutes when Timeout is zero and plus Timeout otherwise, and every
\* deadline set on either connection is that one value.
C6_OneDeadline ==
  /\ Len(clockReads) <= 1
  /\ deadline # << >> =>
       /\ Len(clockReads) = 1
       /\ deadline[1] = clockReads[1] + (IF Timeout = 0 THEN 5 ELSE Timeout)
  /\ \A c \in Conns :
       \A i \in 1 .. Len(connDeadlines[c]) : connDeadlines[c][i] = deadline[1]
  /\ (\A c \in Conns : Len(connDeadlines[c]) > 0) =>
       connDeadlines["clientConn"] = connDeadlines["proxyConn"]

\* Both deadlines were set, with the default timeout, from a reading of the
\* clock after time had passed, and time passed again between the two.
C6_Witness ==
  /\ \A c \in Conns : Len(connDeadlines[c]) = 1
  /\ Timeout = 0
  /\ clockReads[1] > 0
  /\ now > clockReads[1]

\* A direction's copy has returned and its task is about to close.
CopyEnded ==
  \/ pc \in {"CloseProxy", "CloseClient"}
  \/ gpc \in {"CloseClient", "CloseProxy"}

\* C7: in a relaying session, once the upstream peer has closed the proxy
\* eventually closes the client connection, once the client peer has closed
\* the proxy eventually closes the upstream connection, and once either
\* direction's copy has ended both connections are eventually closed.
C7_BilateralTeardown ==
  /\ (spawned = 1 /\ peerClosed["proxyConn"]) ~> (connState["clientConn"] = "closed")
  /\ (spawned = 1 /\ peerClosed["clientConn"]) ~> (connState["proxyConn"] = "closed")
  /\ CopyEnded ~> (\A c \in Conns : connState[c] = "closed")

\* The upstream peer closed while the client stayed, and the goroutine has
\* closed the client connection.
C7_Witness ==
  /\ spawned = 1
  /\ peerClosed["proxyConn"]
  /\ ~peerClosed["clientConn"]
  /\ gpc = "CloseProxy"
  /\ pc = "CopyRead"
  /\ connState["clientConn"] = "closed"

\* C8: however the two completion paths interleave, a task standing at a
\* Close can take it whatever the other task has done, every position stays
\* one of the program's, and when both tasks are through both connections
\* are closed, each Close having been called by both.
C8_DoubleCloseSafe ==
  /\ pc = "CloseProxy" => ENABLED MainCloseProxy
  /\ pc = "CloseClient" => ENABLED MainCloseClient
  /\ gpc = "CloseClient" => ENABLED GoCloseClient
  /\ gpc = "CloseProxy" => ENABLED GoCloseProxy
  /\ gpc \in {"none", "CopyRead", "CopyWrite", "CloseClient", "CloseProxy", "Done"}
  /\ (spawned = 1 /\ SessionOver) =>
       \A c \in Conns : connState[c] = "closed" /\ closeCalls[c] = 2

\* Both tasks are half-way through their closes, each connection already
\* closed by one of them: the next two closes are second closes.
C8_Witness ==
  /\ pc = "CloseClient"
  /\ gpc = "CloseProxy"
  /\ \A c \in Conns : connState[c] = "closed" /\ closeCalls[c] = 1

\* C9: a session that acquired both connections ends with each of them
\* closed, the passage from open to closed happening once per connection.
C9_BothClosedOnce ==
  (SessionOver /\ \A c \in Conns : connState[c] # "none") =>
    \A c \in Conns : connState[c] = "closed"

\* C10: at every moment the bytes written to the upstream connection are a
\* prefix of what the client sent on the hijacked connection (for a client
\* that waits for the 200 line: of what it sent after the handshake), and the
\* bytes written to the client connection after the handshake line are a
\* prefix of what the upstream sent.
C10_InOrderRelay ==
  /\ IsPrefix(wrote["proxyConn"], sent["clientConn"])
  /\ IsPrefix(RelayedToClient, sent["proxyConn"])

\* Two bytes and more have crossed in each direction.
C10_Witness ==
  /\ Len(wrote["proxyConn"]) >= 2
  /\ Len(RelayedToClient) >= 2
  /\ wrote["proxyConn"] = sent["clientConn"]
  /\ RelayedToClient = sent["proxyConn"]

\* C11: when the handshake write is attempted on a client connection whose
\* deadline has already passed, the write fails, nothing of the 200 line is
\* sent, no relay is started and both connections are closed when ProxyHTTPS
\* returns.
C11_ElapsedWriteAborts ==
  /\ (pc = "Spawn" /\ clockReads # << >> /\ Timeout < 0) => FALSE
  /\ (pc = "Returned" /\ failed = "write" /\ Elapsed("clientConn")) =>
       /\ wrote["clientConn"] = << >>
       /\ spawned = 0
       /\ gpc = "none"
       /\ \A c \in Conns : connState[c] = "closed"

\* C12: the relay runs only after hijack, dial, both deadline settings and
\* the handshake write have each succeeded, in that order, and a session
\* that failed before the relay has returned with every connection it had
\* acquired released.
C12_StateOrder ==
  /\ connState["proxyConn"] # "none" => connState["clientConn"] # "none"
  /\ clockReads # << >> => connState["proxyConn"] # "none"
  /\ Len(connDeadlines["clientConn"]) > 0 => clockReads # << >>
  /\ Len(connDeadlines["proxyConn"]) > 0 => Len(connDeadlines["clientConn"]) > 0
  /\ statusWrites > 0 => Len(connDeadlines["proxyConn"]) > 0
  /\ spawned > 0 => (statusWrites > 0 /\ IsPrefix(StatusLine, wrote["clientConn"]))
  /\ (pc \in {"CopyRead", "CopyWrite", "CloseProxy", "CloseClient"} \/ gpc # "none") =>
       spawned > 0
  /\ failed # "" =>
       /\ pc = "Returned"
       /\ spawned = 0
       /\ \A c \in Conns : connState[c] # "open"

\* C13: when the writer is no Hijacker, or Hijack fails, the session ends
\* with one log entry and nothing else: no dial, no byte to the client, no
\* deadline, no goroutine, no connection held.
C13_NoHijackNoEffect ==
  failed \in {"hijacker", "hijack"} =>
    /\ pc = "Returned"
    /\ logs = 1
    /\ dials = 0
    /\ statusWrites = 0
    /\ spawned = 0
    /\ gpc = "none"
    /\ clockReads = << >>
    /\ \A c \in Conns :
         /\ connState[c] = "none"
         /\ connDeadlines[c] = << >>
         /\ wrote[c] = << >>
         /\ closeCalls[c] = 0

\* A CONNECT request on a writer that is no Hijacker has returned.
C13_Witness ==
  /\ method = "CONNECT"
  /\ ~hijacker
  /\ pc = "Returned"
  /\ failed = "hijacker"
  /\ hijacks = 0

\* C14: a connection's deadline is set at most once in a session, each
\* setting happens before the handshake write is attempted, and from the
\* handshake on (the whole relay included) no step sets a deadline again.
C14_DeadlineSetOnce ==
  [][ /\ \A c \in Conns : Len(connDeadlines'[c]) <= 1
      /\ (statusWrites > 0 \/ spawned > 0) => connDeadlines' = connDeadlines
      /\ connDeadlines' # connDeadlines =>
           /\ statusWrites' = 0
           /\ spawned' = 0
           /\ wrote'["clientConn"] = << >> ]_vars

\* Both directions have relayed bytes, time has passed since the clock was
\* read, and each connection still has the one deadline it was given.
C14_Witness ==
  /\ spawned = 1
  /\ RelayedToClient # << >>
  /\ wrote["proxyConn"] # << >>
  /\ now > clockReads[1]
  /\ \A c \in Conns : connDeadlines[c] = << deadline[1] >>

\* b is the chunk most recently read from what the peer of c has sent.
IsLastRead(b, c) ==
  /\ Len(b) <= nread[c]
  /\ nread[c] <= Len(sent[c])
  /\ b = SubSeq(sent[c], nread[c] - Len(b) + 1, nread[c])

\* C15: a session starts at most one goroutine, and only after the whole
\* handshake line was written; the goroutine carries upstream bytes to the
\* client and the calling task client bytes to the upstream; a session that
\* failed has started none.
C15_OneGoroutine ==
  /\ spawned <= 1
  /\ (gpc # "none") <=> (spawned = 1)
  /\ spawned = 1 =>
       /\ failed = ""
       /\ statusWrites = 1
       /\ IsPrefix(StatusLine, wrote["clientConn"])
  /\ failed # "" => (spawned = 0 /\ gpc = "none")
  /\ gpc = "CopyWrite" =>
       /\ buf["go"] # << >>
       /\ IsLastRead(buf["go"], "proxyConn")
  /\ pc = "CopyWrite" =>
       /\ buf["main"] # << >>
       /\ IsLastRead(buf["main"], "clientConn")
  /\ IsPrefix(RelayedToClient, sent["proxyConn"])
  /\ IsPrefix(wrote["proxyConn"], sent["clientConn"])

\* Both tasks hold a chunk they have read and are about to write.
C15_Witness ==
  /\ spawned = 1
  /\ pc = "CopyWrite"
  /\ gpc = "CopyWrite"
  /\ buf["main"] # buf["go"]

\* C16: hijack, dial, the clock read, each SetDeadline, the handshake write
\* and the start of each copy happen at most once in a session; a session
\* that logged a failure does nothing more; once a task's copy has returned
\* that task never copies again and no connection is hijacked or dialled.
C16_NoRetry ==
  [][ /\ hijacks' <= 1
      /\ dials' <= 1
      /\ Len(clockReads') <= 1
      /\ \A c \in Conns : Len(connDeadlines'[c]) <= 1
      /\ statusWrites' <= 1
      /\ spawned' <= 1
      /\ logs' <= 1
      /\ (pc' = "CopyRead" /\ pc \notin {"CopyRead", "CopyWrite"}) =>
           (pc = "Spawn" /\ spawned = 0)
      /\ (gpc' = "CopyRead" /\ gpc \notin {"CopyRead", "CopyWrite"}) =>
           (gpc = "none" /\ spawned = 0)
      /\ (failed # "" \/ logs > 0) => UNCHANGED vars
      /\ pc \in {"CloseProxy", "CloseClient", "Returned"} =>
           /\ pc' \in {"CloseProxy", "CloseClient", "Returned"}
           /\ UNCHANGED << hijacks, dials, spawned, statusWrites >>
      /\ gpc \in {"CloseClient", "CloseProxy", "Done"} =>
           /\ gpc' \in {"CloseClient", "CloseProxy", "Done"}
           /\ UNCHANGED << hijacks, dials, spawned, statusWrites >> ]_vars

\* The session is over, and the client-to-upstream copy ended in a failed
\* write: it had read more than it could deliver.
C16_Witness ==
  /\ SessionOver
  /\ spawned = 1
  /\ hijacks = 1
  /\ dials = 1
  /\ nread["clientConn"] > Len(wrote["proxyConn"])

\* C17: every relaying session ends with both copies returned, both tasks
\* finished and both connections closed, whether or not a peer ever closes:
\* the clock reaches the deadline and no Read or Write outlasts it.
C17_DeadlineBoundsSession ==
  (spawned = 1) ~>
    /\ SessionOver
    /\ \A c \in Conns : connState[c] = "closed"
    /\ (\E c \in Conns : peerClosed[c]) \/ (\A c \in Conns : Elapsed(c))

\* A relaying session that only the deadline ended: neither peer closed,
\* the clock reached the deadline, and everything is closed.
C17_Witness ==
  /\ spawned = 1
  /\ SessionOver
  /\ \A c \in Conns : ~peerClosed[c] /\ Elapsed(c) /\ connState[c] = "closed"
  /\ now > clockReads[1]

\* C18: in a relaying session ProxyHTTPS returns only from its own
\* clientConn.Close(), after its copy returned and it closed proxyConn, so
\* both connections are closed at the return; the goroutine is not waited
\* for, and after the return it always finishes.
C18_ReturnWithoutJoin ==
  /\ [][ /\ (pc' = "Returned" /\ pc # "Returned" /\ spawned = 1) =>
              /\ pc = "CloseClient"
              /\ closeCalls'["clientConn"] = closeCalls["clientConn"] + 1
              /\ closeCalls["proxyConn"] >= 1
              /\ gpc' = gpc
         /\ (pc' = "CloseClient" /\ pc # "CloseClient") =>
              /\ pc = "CloseProxy"
              /\ closeCalls'["proxyConn"] = closeCalls["proxyConn"] + 1
         /\ (pc' = "CloseProxy" /\ pc # "CloseProxy") =>
              pc \in {"CopyRead", "CopyWrite"} ]_vars
  /\ [](pc = "Returned" /\ spawned = 1 =>
          \A c \in Conns : connState[c] = "closed")
  /\ (pc = "Returned" /\ spawned = 1) ~> (gpc = "Done")

\* ProxyHTTPS has returned from a relay while the goroutine is still inside
\* its copy.
C18_Witness ==
  /\ pc = "Returned"
  /\ spawned = 1
  /\ gpc \in {"CopyRead", "CopyWrite"}

\* C19: the TLS configuration given to NewReverseProxy reaches the transport
\* of that proxy only: every proxy built so far forwards with the
\* configuration it was built with, nil for a proxy built without one,
\* whatever was built before or after it.
C19_TLSConfigPerProxy ==
  \A i \in 1 .. Len(proxies) : TLSOf(i) = proxies[i].tlsClientConfig

====
